---------------------------- MODULE Spec2Model ----------------------------
(* Model of fuzzers/libfuzzer_libmozjpeg/hook_allocs.c: the malloc/calloc   *)
(* replacements that record, per hashed call site, the largest allocation  *)
(* size in libafl_alloc_map and serve the request through posix_memalign.  *)
(*                                                                         *)
(* size_t and uintptr_t values are machine words.  A word is kept as its   *)
(* WORD_BYTES bytes, least significant first, so that 64-bit shifts,       *)
(* products and comparisons are computed exactly as the hardware does.     *)
(*                                                                         *)
(* Callers run on several threads.  libafl_alloc_map[k] = MAX(...) is not  *)
(* atomic: its read and its write of the word are separate steps, and any  *)
(* steps of other threads may come between them.                           *)
EXTENDS Naturals, Sequences, FiniteSets

(***************************************************************************)
(* Machine words                                                           *)
(***************************************************************************)

\* sizeof(size_t) = sizeof(uintptr_t) on the LP64 targets the fuzzer builds for
WORD_BYTES == 8

Idx == 1..WORD_BYTES

\* the size_t / uintptr_t value n, for a natural number n
RECURSIVE NatBytes(_, _)
NatBytes(n, len) ==
  IF len = 0 THEN << >> ELSE <<(n % 256)>> \o NatBytes(n \div 256, len - 1)

W(n) == [i \in Idx |-> NatBytes(n, WORD_BYTES)[i]]

ZeroWord == W(0)

\* the word with the given bytes, least significant first
FromBytes(bs) == [i \in Idx |-> bs[i]]

\* the natural number of a word that fits three bytes
Small(w) == \A i \in Idx : i > 3 => w[i] = 0

ToNat(w) == w[1] + 256 * w[2] + 65536 * w[3]

\* unsigned a > b, decided at the most significant differing byte
RECURSIVE GtFrom(_, _, _)
GtFrom(a, b, i) ==
  IF i = 0 THEN FALSE
  ELSE IF a[i] # b[i] THEN a[i] > b[i]
  ELSE GtFrom(a, b, i - 1)

WordGT(a, b) == GtFrom(a, b, WORD_BYTES)

WordGE(a, b) == ~WordGT(b, a)

RECURSIVE Pow2(_)
Pow2(n) == IF n = 0 THEN 1 ELSE 2 * Pow2(n - 1)

RECURSIVE BitXor(_, _)
BitXor(x, y) ==
  IF x = 0 /\ y = 0 THEN 0
  ELSE (((x % 2) + (y % 2)) % 2) + 2 * BitXor(x \div 2, y \div 2)

RECURSIVE BitAnd(_, _)
BitAnd(x, y) ==
  IF x = 0 \/ y = 0 THEN 0
  ELSE ((x % 2) * (y % 2)) + 2 * BitAnd(x \div 2, y \div 2)

\* a ^ b
WordXor(a, b) == [i \in Idx |-> BitXor(a[i], b[i])]

\* a & b
WordAnd(a, b) == [i \in Idx |-> BitAnd(a[i], b[i])]

\* a >> n : logical shift right of an unsigned word, zeros enter at the top
ShiftRight(a, n) ==
  LET q == n \div 8
      r == n % 8
      src(i) == IF i + q \in Idx THEN a[i + q] ELSE 0
  IN  [i \in Idx |-> (src(i) \div Pow2(r)) + ((src(i + 1) % Pow2(r)) * Pow2(8 - r))]

\* a << n : the bits shifted past the top of the word are lost
ShiftLeft(a, n) ==
  LET q == n \div 8
      r == n % 8
      src(i) == IF i - q \in Idx THEN a[i - q] ELSE 0
  IN  [i \in Idx |-> ((src(i) * Pow2(r)) % 256) + (src(i - 1) \div Pow2(8 - r))]

\* the low word of a wide value: the value modulo 2^(8*WORD_BYTES)
Low(x) == [i \in Idx |-> x[i]]

RECURSIVE AddFrom(_, _, _, _)
AddFrom(a, b, i, c) ==
  IF i > WORD_BYTES THEN << >>
  ELSE <<((a[i] + b[i] + c) % 256)>> \o AddFrom(a, b, i + 1, (a[i] + b[i] + c) \div 256)

\* a + b, the carry out of the top byte lost
WordAdd(a, b) == Low(AddFrom(a, b, 1, 0))

\* column j (1-based) of the schoolbook product of two words
RECURSIVE ColSum(_, _, _, _)
ColSum(a, b, j, i) ==
  IF i = 0 THEN 0
  ELSE (IF j + 1 - i \in Idx THEN a[i] * b[j + 1 - i] ELSE 0) + ColSum(a, b, j, i - 1)

RECURSIVE Carry(_, _, _, _)
Carry(a, b, j, c) ==
  IF j > 2 * WORD_BYTES THEN << >>
  ELSE LET s == ColSum(a, b, j, WORD_BYTES) + c
       IN  <<s % 256>> \o Carry(a, b, j + 1, s \div 256)

\* the exact product of two words, 2*WORD_BYTES bytes
WideMul(a, b) == Carry(a, b, 1, 0)

\* the exact product does not fit a word
Overflows(a, b) == \E i \in (WORD_BYTES + 1)..(2 * WORD_BYTES) : WideMul(a, b)[i] # 0

\* a * b in size_t arithmetic (line 40, size *= nmemb)
WordMul(a, b) == Low(WideMul(a, b))

(***************************************************************************)
(* hook_allocs.c                                                           *)
(***************************************************************************)

\* #define MAP_SIZE (16*1024)
MAP_SIZE == 16 * 1024

\* mutation of ALIGNMENT: 1<<4
ALIGNMENT_16 == Pow2(4)

\* the alignment argument of posix_memalign, 1<<6
ALIGNMENT == Pow2(6)

NULL == 0

\* mutation of MAX: the comparison reversed
MAX_Flipped(a, b) == IF WordGT(a, b) THEN b ELSE a

\* MAP_SIZE - 1 converted to uintptr_t (line 26)
Mask == W(MAP_SIZE - 1)

\* the MAX macro: _a > _b ? _a : _b on size_t operands
MAX(a, b) == IF WordGT(a, b) THEN a ELSE b

\* mutation of Hash: the mask is MAP_SIZE, not MAP_SIZE - 1
Hash_NoMinusOne(ra) ==
  WordAnd(WordXor(ShiftRight(ra, 4), ShiftLeft(ra, 8)), W(MAP_SIZE))

\* lines 24-26 / 42-44: the bucket of return address ra
\*   k = (k >> 4) ^ (k << 8);  k &= MAP_SIZE - 1;
Hash(ra) == WordAnd(WordXor(ShiftRight(ra, 4), ShiftLeft(ra, 8)), Mask)

\* mutation of CallocSize: a product that does not fit saturates at SIZE_MAX
CallocSize_Saturating(n, s) ==
  IF Overflows(s, n) THEN [i \in Idx |-> 255] ELSE WordMul(s, n)

\* line 40: size *= nmemb, in size_t arithmetic
CallocSize(n, s) == WordMul(s, n)

\* mutation of RetInit: ret left uninitialised, holding a stale pointer
RetInit_Stale == 64 * 64 + 16

\* line 32 / 47: void *ret = NULL
RetInit == NULL

\* line 34 / 50: return ret
ReturnValue(p) == p

\* libafl_alloc_map is a zero-initialised array of MAP_SIZE words.  It is kept
\* as the function of its non-zero entries: an index outside the domain reads 0.
Load(m, i) == IF i \in DOMAIN m THEN m[i] ELSE ZeroWord

\* mutation of Store: the write also covers the next element
Store_Wide(m, i, v) ==
  LET n == WordAdd(i, W(1))
      d == IF v = ZeroWord THEN DOMAIN m \ {i, n} ELSE DOMAIN m \cup {i, n}
  IN  [j \in d |-> IF j \in {i, n} THEN v ELSE m[j]]

Store(m, i, v) ==
  LET d == IF v = ZeroWord THEN DOMAIN m \ {i} ELSE DOMAIN m \cup {i}
  IN  [j \in d |-> IF j = i THEN v ELSE m[j]]

\* mutation of Updated: the size is stored whatever the bucket held
Updated_Overwrite(old, sz) == sz

\* mutation of Updated: the sizes are accumulated
Updated_Sum(old, sz) == WordAdd(old, sz)

\* line 27 / 45: the value written back, from the value read and the size
Updated(old, sz) == MAX(old, sz)

(***************************************************************************)
(* The environment: the C library's posix_memalign and memset              *)
(***************************************************************************)

\* the largest request the heap can serve
HeapLimit == 2

\* the addresses the heap hands out, one of them only 16-byte aligned
HeapAddrs == {64 * 64 + 16, 64 * 65}

\* what a fresh region may hold before it is written
Garbage == {0, 170}

\* posix_memalign(&ret, alignment, n): the outcomes.  It may fail for any
\* request and does for one above HeapLimit; on failure *memptr is left as it
\* was (the _WIN32 macro of line 8 stores NULL).  A request of 0 bytes may
\* also succeed with a null pointer.
PosixMemalign(memptr, alignment, n) ==
  {[rc |-> "ENOMEM", ptr |-> memptr, mem |-> << >>]}
  \cup
  (IF Small(n) /\ ToNat(n) <= HeapLimit
   THEN {[rc |-> "ok", ptr |-> p, mem |-> c] :
            p \in {a \in HeapAddrs : a % alignment = 0},
            c \in [1..ToNat(n) -> Garbage]}
        \cup (IF n = ZeroWord
              THEN {[rc |-> "ok", ptr |-> NULL, mem |-> << >>]}
              ELSE {})
   ELSE {})

\* mutation of Memset: the last byte is left as it was
Memset_Short(region, n) ==
  [i \in DOMAIN region |-> IF WordGT(n, W(i)) THEN 0 ELSE region[i]]

\* memset(p, 0, n) on the region at p: its first n bytes become 0
Memset(region, n) ==
  [i \in DOMAIN region |-> IF WordGT(n, W(i - 1)) THEN 0 ELSE region[i]]

(***************************************************************************)
(* State                                                                   *)
(***************************************************************************)

Threads == {"t1", "t2"}

\* the number of malloc/calloc calls explored
MaxCalls == 2

\* Return addresses of the callers.  A call instruction calls one function:
\* SiteA and SiteC call malloc, SiteB calls calloc.  SiteA and SiteB differ
\* only in bit 18 and hash to one bucket; SiteC hashes elsewhere and has its
\* top byte set.
SiteA == FromBytes(<<54, 17, 64, 0, 0, 0, 0, 0>>)
SiteB == FromBytes(<<54, 17, 68, 0, 0, 0, 0, 0>>)
SiteC == FromBytes(<<168, 25, 46, 92, 58, 127, 0, 180>>)
MallocSites == {SiteA, SiteC}
CallocSites == {SiteB}
Sites == MallocSites \cup CallocSites

\* 2^63
Huge == FromBytes(<<0, 0, 0, 0, 0, 0, 0, 128>>)

MallocSizes == {W(0), W(1), Huge}

\* <<nmemb, size>>: 2*1, (2^63+1)*2 = 2^64+2, 2^32*2^32 = 2^64
CallocArgs ==
  { <<W(2), W(1)>>,
    <<FromBytes(<<1, 0, 0, 0, 0, 0, 0, 128>>), W(2)>>,
    <<FromBytes(<<0, 0, 0, 0, 1, 0, 0, 0>>), FromBytes(<<0, 0, 0, 0, 1, 0, 0, 0>>)>> }

VARIABLES
  libafl_alloc_map,  \* the feedback table (line 20)
  pc,                \* per thread: the statement it is about to execute
  nmemb, size,       \* per thread: the parameters (size is overwritten at line 40)
  k,                 \* per thread: the local k
  _a,                \* per thread: MAX's _a, the value read from libafl_alloc_map[k]
  ret,               \* per thread: the local ret
  rc,                \* per thread: what posix_memalign returned
  mem,               \* per thread: the bytes of the region at ret
  retval,            \* per thread: << >>, or <<p>> once the call returned p
  crashed,           \* "no", or the function in which the process died
  nullWrite,         \* history: memset stored through a null pointer
  requested,         \* history: per bucket, the sizes requested by calls hashing to it
  raced,             \* history: buckets on which two calls were in progress at once
  obs,               \* history, per call: site, arguments, sizes compared/requested/zeroed, the region as allocated
  ncalls             \* calls made so far

vars == <<libafl_alloc_map, pc, nmemb, size, k, _a, ret, rc, mem, retval,
          crashed, nullWrite, requested, raced, obs, ncalls>>

NoObs == [fn |-> "none", site |-> ZeroWord, nmemb |-> ZeroWord, size |-> ZeroWord,
          cmp |-> << >>, req |-> << >>, zero |-> << >>, fresh |-> << >>]

Init ==
  /\ libafl_alloc_map = << >>
  /\ pc = [t \in Threads |-> "idle"]
  /\ nmemb = [t \in Threads |-> ZeroWord]
  /\ size = [t \in Threads |-> ZeroWord]
  /\ k = [t \in Threads |-> ZeroWord]
  /\ _a = [t \in Threads |-> ZeroWord]
  /\ ret = [t \in Threads |-> NULL]
  /\ rc = [t \in Threads |-> "none"]
  /\ mem = [t \in Threads |-> << >>]
  /\ retval = [t \in Threads |-> << >>]
  /\ crashed = "no"
  /\ nullWrite = FALSE
  /\ requested = << >>
  /\ raced = {}
  /\ obs = [t \in Threads |-> NoObs]
  /\ ncalls = 0

\* the sizes requested so far for bucket b
Requested(b) == IF b \in DOMAIN requested THEN requested[b] ELSE {}

\* a call enters with bucket b and effective size s: the history it leaves
Enter(t, b, s) ==
  /\ requested' = [j \in DOMAIN requested \cup {b} |-> IF j = b THEN Requested(b) \cup {s}
                                                        ELSE requested[j]]
  /\ raced' = IF \E u \in Threads \ {t} : pc[u] # "idle" /\ k[u] = b
              THEN raced \cup {b} ELSE raced
  /\ ncalls' = ncalls + 1
  /\ retval' = [retval EXCEPT ![t] = << >>]

\* the locals of a finished call are dead
Leave(t) ==
  /\ nmemb' = [nmemb EXCEPT ![t] = ZeroWord]
  /\ size' = [size EXCEPT ![t] = ZeroWord]
  /\ k' = [k EXCEPT ![t] = ZeroWord]
  /\ _a' = [_a EXCEPT ![t] = ZeroWord]
  /\ ret' = [ret EXCEPT ![t] = NULL]
  /\ rc' = [rc EXCEPT ![t] = "none"]
  /\ mem' = [mem EXCEPT ![t] = << >>]
  /\ obs' = [obs EXCEPT ![t] = NoObs]
  /\ pc' = [pc EXCEPT ![t] = "idle"]

(***************************************************************************)
(* malloc (lines 22-36)                                                    *)
(***************************************************************************)

\* a caller at return address ra calls malloc(s); lines 24-26 compute k
MallocCall(t, ra, s) ==
  /\ crashed = "no" /\ pc[t] = "idle" /\ ncalls < MaxCalls
  /\ size' = [size EXCEPT ![t] = s]
  /\ k' = [k EXCEPT ![t] = Hash(ra)]
  /\ ret' = [ret EXCEPT ![t] = RetInit]
  /\ obs' = [obs EXCEPT ![t] = [NoObs EXCEPT !.fn = "malloc", !.site = ra, !.size = s]]
  /\ pc' = [pc EXCEPT ![t] = "malloc_load"]
  /\ Enter(t, Hash(ra), s)
  /\ UNCHANGED <<libafl_alloc_map, nmemb, _a, rc, mem, crashed, nullWrite>>

\* line 27, the read of libafl_alloc_map[k]
MallocLoad(t) ==
  /\ crashed = "no" /\ pc[t] = "malloc_load"
  /\ _a' = [_a EXCEPT ![t] = Load(libafl_alloc_map, k[t])]
  /\ pc' = [pc EXCEPT ![t] = "malloc_store"]
  /\ UNCHANGED <<libafl_alloc_map, nmemb, size, k, ret, rc, mem, retval, crashed,
                 nullWrite, requested, raced, obs, ncalls>>

\* line 27, the write of libafl_alloc_map[k]
MallocStore(t) ==
  /\ crashed = "no" /\ pc[t] = "malloc_store"
  /\ libafl_alloc_map' = Store(libafl_alloc_map, k[t], Updated(_a[t], size[t]))
  /\ obs' = [obs EXCEPT ![t].cmp = Append(@, size[t])]
  /\ pc' = [pc EXCEPT ![t] = "malloc_alloc"]
  /\ UNCHANGED <<nmemb, size, k, _a, ret, rc, mem, retval, crashed, nullWrite,
                 requested, raced, ncalls>>

\* line 33: posix_memalign(&ret, 1<<6, size)
MallocAlloc(t) ==
  /\ crashed = "no" /\ pc[t] = "malloc_alloc"
  /\ \E o \in PosixMemalign(ret[t], ALIGNMENT, size[t]) :
       /\ ret' = [ret EXCEPT ![t] = o.ptr]
       /\ rc' = [rc EXCEPT ![t] = o.rc]
       /\ mem' = [mem EXCEPT ![t] = o.mem]
       /\ obs' = [obs EXCEPT ![t].req = Append(@, size[t]), ![t].fresh = o.mem]
  /\ pc' = [pc EXCEPT ![t] = "malloc_ret"]
  /\ UNCHANGED <<libafl_alloc_map, nmemb, size, k, _a, retval, crashed, nullWrite,
                 requested, raced, ncalls>>

\* line 34: return ret
MallocReturn(t) ==
  /\ crashed = "no" /\ pc[t] = "malloc_ret"
  /\ retval' = [retval EXCEPT ![t] = <<ReturnValue(ret[t])>>]
  /\ Leave(t)
  /\ UNCHANGED <<libafl_alloc_map, crashed, nullWrite, requested, raced, ncalls>>

(***************************************************************************)
(* calloc (lines 38-52)                                                    *)
(***************************************************************************)

\* a caller at return address ra calls calloc(n, s); line 40 and lines 42-44
CallocCall(t, ra, n, s) ==
  /\ crashed = "no" /\ pc[t] = "idle" /\ ncalls < MaxCalls
  /\ nmemb' = [nmemb EXCEPT ![t] = n]
  /\ size' = [size EXCEPT ![t] = CallocSize(n, s)]
  /\ k' = [k EXCEPT ![t] = Hash(ra)]
  /\ ret' = [ret EXCEPT ![t] = RetInit]
  /\ obs' = [obs EXCEPT ![t] = [NoObs EXCEPT !.fn = "calloc", !.site = ra,
                                              !.nmemb = n, !.size = s]]
  /\ pc' = [pc EXCEPT ![t] = "calloc_load"]
  /\ Enter(t, Hash(ra), CallocSize(n, s))
  /\ UNCHANGED <<libafl_alloc_map, _a, rc, mem, crashed, nullWrite>>

\* line 45, the read of libafl_alloc_map[k]
CallocLoad(t) ==
  /\ crashed = "no" /\ pc[t] = "calloc_load"
  /\ _a' = [_a EXCEPT ![t] = Load(libafl_alloc_map, k[t])]
  /\ pc' = [pc EXCEPT ![t] = "calloc_store"]
  /\ UNCHANGED <<libafl_alloc_map, nmemb, size, k, ret, rc, mem, retval, crashed,
                 nullWrite, requested, raced, obs, ncalls>>

\* line 45, the write of libafl_alloc_map[k]
CallocStore(t) ==
  /\ crashed = "no" /\ pc[t] = "calloc_store"
  /\ libafl_alloc_map' = Store(libafl_alloc_map, k[t], Updated(_a[t], size[t]))
  /\ obs' = [obs EXCEPT ![t].cmp = Append(@, size[t])]
  /\ pc' = [pc EXCEPT ![t] = "calloc_alloc"]
  /\ UNCHANGED <<nmemb, size, k, _a, ret, rc, mem, retval, crashed, nullWrite,
                 requested, raced, ncalls>>

\* line 48: posix_memalign(&ret, 1<<6, size)
CallocAlloc(t) ==
  /\ crashed = "no" /\ pc[t] = "calloc_alloc"
  /\ \E o \in PosixMemalign(ret[t], ALIGNMENT, size[t]) :
       /\ ret' = [ret EXCEPT ![t] = o.ptr]
       /\ rc' = [rc EXCEPT ![t] = o.rc]
       /\ mem' = [mem EXCEPT ![t] = o.mem]
       /\ obs' = [obs EXCEPT ![t].req = Append(@, size[t]), ![t].fresh = o.mem]
  /\ pc' = [pc EXCEPT ![t] = "calloc_memset"]
  /\ UNCHANGED <<libafl_alloc_map, nmemb, size, k, _a, retval, crashed, nullWrite,
                 requested, raced, ncalls>>

\* line 49: memset(ret, 0, size), executed whatever posix_memalign returned.
\* With ret null and size > 0 it stores through a null pointer: undefined
\* behaviour, which either kills the process (the thread ends at "crashed")
\* or lets it run on.
CallocMemset(t) ==
  /\ crashed = "no" /\ pc[t] = "calloc_memset"
  /\ obs' = [obs EXCEPT ![t].zero = Append(@, size[t])]
  /\ IF ret[t] # NULL
     THEN /\ mem' = [mem EXCEPT ![t] = Memset(mem[t], size[t])]
          /\ pc' = [pc EXCEPT ![t] = "calloc_ret"]
          /\ UNCHANGED <<crashed, nullWrite>>
     ELSE IF size[t] = ZeroWord
     THEN /\ pc' = [pc EXCEPT ![t] = "calloc_ret"]
          /\ UNCHANGED <<mem, crashed, nullWrite>>
     ELSE /\ nullWrite' = TRUE
          /\ \/ crashed' = "calloc" /\ pc' = [pc EXCEPT ![t] = "crashed"]
             \/ pc' = [pc EXCEPT ![t] = "calloc_ret"] /\ UNCHANGED crashed
          /\ UNCHANGED mem
  /\ UNCHANGED <<libafl_alloc_map, nmemb, size, k, _a, ret, rc, retval,
                 requested, raced, ncalls>>

\* line 50: return ret
CallocReturn(t) ==
  /\ crashed = "no" /\ pc[t] = "calloc_ret"
  /\ retval' = [retval EXCEPT ![t] = <<ReturnValue(ret[t])>>]
  /\ Leave(t)
  /\ UNCHANGED <<libafl_alloc_map, crashed, nullWrite, requested, raced, ncalls>>

Next ==
  \/ \E t \in Threads, ra \in MallocSites, s \in MallocSizes : MallocCall(t, ra, s)
  \/ \E t \in Threads : MallocLoad(t)
  \/ \E t \in Threads : MallocStore(t)
  \/ \E t \in Threads : MallocAlloc(t)
  \/ \E t \in Threads : MallocReturn(t)
  \/ \E t \in Threads, ra \in CallocSites, a \in CallocArgs : CallocCall(t, ra, a[1], a[2])
  \/ \E t \in Threads : CallocLoad(t)
  \/ \E t \in Threads : CallocStore(t)
  \/ \E t \in Threads : CallocAlloc(t)
  \/ \E t \in Threads : CallocMemset(t)
  \/ \E t \in Threads : CallocReturn(t)

Spec == Init /\ [][Next]_vars

(***************************************************************************)
(* Properties                                                              *)
(***************************************************************************)

\* the value of libafl_alloc_map[b] in the current and in the next state
Bucket(b) == Load(libafl_alloc_map, b)
BucketNext(b) == Load(libafl_alloc_map', b)

\* The buckets any thread has touched, and those of the known call sites.
\* Every other bucket reads 0 and has no request recorded.
SiteBuckets == {Hash(ra) : ra \in Sites}

Buckets == DOMAIN libafl_alloc_map \cup DOMAIN requested \cup SiteBuckets

MapSizeWord == W(MAP_SIZE)

\* the largest of a set of sizes, 0 for none
MaxOf(S) == IF S = {} THEN ZeroWord ELSE CHOOSE m \in S : \A x \in S : WordGE(m, x)

\* a call on bucket b has not yet written it
Updating(b) ==
  \E t \in Threads :
     /\ pc[t] \in {"malloc_load", "malloc_store", "calloc_load", "calloc_store"}
     /\ k[t] = b

InCall(t) == pc[t] # "idle"

AllIdle == \A t \in Threads : pc[t] = "idle"

\* the bucket of return address ra, from its low 18 bits alone:
\* bits 4..17 of ra, xor bits 0..5 of ra moved to bits 8..13
LowBitsBucket(ra) ==
  W(BitXor((ra[1] + 256 * ra[2] + 65536 * (ra[3] % 4)) \div 16, (ra[1] % 64) * 256))

\* LowBitsBucket of each call site
BucketOf == [ra \in Sites |-> LowBitsBucket(ra)]

\* nmemb*size modulo 2^64, from the exact product, for each pair of arguments
ProductOf == [a \in CallocArgs |-> Low(WideMul(a[1], a[2]))]

\* C1: after calls on a bucket that followed one another (no two of them in
\* progress at once), the bucket holds the largest size requested for it so
\* far, the wrapped product for calloc, and 0 when nothing was requested.
C1_MapHoldsMaximum ==
  \A b \in Buckets :
     (b \notin raced /\ ~Updating(b)) => Bucket(b) = MaxOf(Requested(b))

C1_Witness ==
  \E b \in Buckets :
     /\ AllIdle /\ b \notin raced
     /\ Requested(b) = {W(2), Huge}
     /\ Bucket(b) = Huge
     /\ \E c \in Buckets : Requested(c) = {} /\ Bucket(c) = ZeroWord

\* C2 as stated: after the calls of a sequence the bucket is at least their
\* largest size, and no step of the program ever lowers any bucket.
C2_Original ==
  /\ [](\A b \in Buckets :
          (b \notin raced /\ ~Updating(b)) => WordGE(Bucket(b), MaxOf(Requested(b))))
  /\ [][\A b \in DOMAIN libafl_alloc_map : WordGE(BucketNext(b), Bucket(b))]_vars

\* C2 amended: after the calls of a sequence the bucket is at least their
\* largest size, and no step lowers a bucket on which no two calls were ever
\* in progress at once.
C2_MonotoneWithoutOverlap ==
  /\ [](\A b \in Buckets :
          (b \notin raced /\ ~Updating(b)) => WordGE(Bucket(b), MaxOf(Requested(b))))
  /\ [][\A b \in DOMAIN libafl_alloc_map :
          b \notin raced' => WordGE(BucketNext(b), Bucket(b))]_vars

C2_Witness ==
  \E b \in Buckets :
     /\ AllIdle /\ b \notin raced /\ ncalls = 2
     /\ Requested(b) = {W(1), Huge}
     /\ WordGE(Bucket(b), Huge)

\* C3: under every interleaving of the reads and writes of line 27 and 45 a
\* bucket holds 0 or one of the sizes requested for it, hence never more than
\* the largest of them.
C3_NoCorruptValue ==
  \A b \in Buckets :
     /\ Bucket(b) = ZeroWord \/ Bucket(b) \in Requested(b)
     /\ WordGE(MaxOf(Requested(b)), Bucket(b))

\* two calls raced on a bucket and the smaller size survived
C3_Witness ==
  \E b \in raced :
     /\ AllIdle
     /\ Requested(b) = {W(1), Huge}
     /\ Bucket(b) = W(1)

\* C4: when posix_memalign succeeds, calloc returns a region of the computed
\* nmemb*size bytes, every byte 0, whatever the region held before.
C4_CallocZeroed ==
  \A t \in Threads :
     (pc[t] = "calloc_ret" /\ rc[t] = "ok") =>
        LET n == ProductOf[<<obs[t].nmemb, obs[t].size>>]
        IN  /\ Small(n)
            /\ DOMAIN mem[t] = 1..ToNat(n)
            /\ \A i \in DOMAIN mem[t] : mem[t][i] = 0

C4_Witness ==
  \E t \in Threads :
     /\ pc[t] = "calloc_ret" /\ rc[t] = "ok" /\ ret[t] # NULL
     /\ obs[t].nmemb = W(2) /\ obs[t].size = W(1)
     /\ \A i \in 1..2 : obs[t].fresh[i] = 170 /\ mem[t][i] = 0

\* C5: when posix_memalign fails in calloc, the zeroing is skipped: no byte is
\* stored through the null result, and the call goes on to return null.
C5_ZeroingSkippedOnFailure ==
  /\ ~nullWrite
  /\ crashed # "calloc"
  /\ \A t \in Threads :
        (pc[t] = "calloc_ret" /\ rc[t] = "ENOMEM") => ret[t] = NULL

\* C6: when posix_memalign fails in malloc, the call returns null to its
\* caller, having called the allocator once and not ended the process.
C6_MallocFailureReturnsNull ==
  [][\A t \in Threads :
        (pc[t] = "malloc_ret" /\ rc[t] = "ENOMEM" /\ pc'[t] = "idle") =>
           /\ retval'[t] = <<NULL>>
           /\ Len(obs[t].req) = 1
           /\ crashed' = "no"]_vars

C6_Witness ==
  \E t \in Threads :
     /\ pc[t] = "malloc_ret" /\ rc[t] = "ENOMEM"
     /\ size[t] = W(1) /\ ret[t] = NULL /\ crashed = "no"

\* C7: a step of a call from return address ra changes no bucket other than
\* that of ra; calls from one site use one bucket, calls from sites whose
\* hashes differ use different ones.
C7_OnlyOwnBucket ==
  [][\A t \in Threads :
        pc'[t] # pc[t] =>
           LET ra == IF InCall(t) THEN obs[t].site ELSE obs'[t].site
           IN  /\ \A b \in DOMAIN libafl_alloc_map \cup DOMAIN libafl_alloc_map' :
                     b # BucketOf[ra] => BucketNext(b) = Bucket(b)
               /\ \A u \in Threads :
                     (pc'[t] # "idle" /\ pc'[u] # "idle") =>
                        /\ obs'[u].site = obs'[t].site => k'[u] = k'[t]
                        /\ BucketOf[obs'[u].site] # BucketOf[obs'[t].site]
                              => k'[u] # k'[t]]_vars

\* two sites with different hashes have each left their own size
C7_Witness ==
  /\ Hash(SiteA) # Hash(SiteC)
  /\ Bucket(Hash(SiteA)) = W(1)
  /\ Bucket(Hash(SiteC)) = Huge

\* C8: every non-null pointer malloc or calloc returns is a multiple of 64,
\* for every size, 0 included.
C8_Aligned64 ==
  \A t \in Threads :
     /\ pc[t] \in {"malloc_ret", "calloc_memset", "calloc_ret"} =>
           (ret[t] = NULL \/ ret[t] % 64 = 0)
     /\ Len(retval[t]) = 1 => (retval[t][1] = NULL \/ retval[t][1] % 64 = 0)

C8_Witness ==
  \E t, u \in Threads :
     /\ Len(retval[t]) = 1 /\ retval[t][1] # NULL
     /\ pc[u] = "malloc_ret" /\ size[u] = ZeroWord /\ ret[u] # NULL

\* C9: the bucket index is below MAP_SIZE and is the function
\* ((a >> 4) ^ (a << 8)) & (MAP_SIZE - 1) of the return address a alone,
\* which its low 18 bits determine.
C9_BucketInRange ==
  /\ \A t \in Threads :
        InCall(t) => /\ WordGT(MapSizeWord, k[t])
                     /\ k[t] = BucketOf[obs[t].site]
  /\ \A b \in DOMAIN libafl_alloc_map : WordGT(MapSizeWord, b)

\* a return address with its top byte set: the left shift drops bits
C9_Witness ==
  \E t \in Threads :
     /\ InCall(t) /\ obs[t].site = SiteC
     /\ ShiftLeft(SiteC, 8)[WORD_BYTES] = SiteC[WORD_BYTES - 1]
     /\ k[t] = W(2458)
     /\ k[t] \in DOMAIN libafl_alloc_map

\* C10: in calloc the effective size is nmemb*size modulo 2^64; that one value
\* is compared into the map, requested from posix_memalign and zeroed, and a
\* product that does not fit is not rejected: the allocator is still called.
C10_WrappedProduct ==
  \A t \in Threads :
     obs[t].fn = "calloc" =>
        LET n == ProductOf[<<obs[t].nmemb, obs[t].size>>]
            past(p) == pc[t] \in p
        IN  /\ size[t] = n
            /\ n \in Requested(k[t])
            /\ obs[t].cmp = IF past({"calloc_alloc", "calloc_memset", "calloc_ret", "crashed"})
                            THEN <<n>> ELSE << >>
            /\ obs[t].req = IF past({"calloc_memset", "calloc_ret", "crashed"})
                            THEN <<n>> ELSE << >>
            /\ obs[t].zero = IF past({"calloc_ret", "crashed"}) THEN <<n>> ELSE << >>

\* (2^63+1)*2 = 2^64+2 was served as a request for 2 bytes
C10_Witness ==
  \E t \in Threads :
     /\ pc[t] = "calloc_ret" /\ rc[t] = "ok" /\ ret[t] # NULL
     /\ Overflows(obs[t].nmemb, obs[t].size)
     /\ size[t] = W(2)
     /\ obs[t].req = <<W(2)>>
     /\ DOMAIN mem[t] = 1..2

=============================================================================
